---- MODULE Spec2Model ----
(***************************************************************************)
(* Tech4 webhook receiver: the in-process handler of                       *)
(* src/src/webhook/webhook_server.py and the Redis handler of              *)
(* src/src/webhook/redis_webhook_server.py.                                *)
(*                                                                         *)
(* The two modules share no state (WEBHOOK_STORE / PROCESSED_EVENT_IDS on  *)
(* one side, the Redis database on the other) and no handler of one reads  *)
(* or writes the state of the other, so a behaviour follows one of them,   *)
(* chosen in Init.  An in-process handler runs without an await on the     *)
(* state of its own process and is one step.  A Redis handler is one step  *)
(* per call to the Redis server: the ingestion makes three (EXISTS, SETEX  *)
(* of the mark, SETEX of the record), and between two of them the clock    *)
(* advances and the other requests to the same database act.  The payload  *)
(* is built, and the clock read for its received_at, in a step of its own  *)
(* between the reply to the SETEX of the mark and the server applying the  *)
(* SETEX of the record, from which the TTL of the record counts.           *)
(*                                                                         *)
(* Spec takes the deliveries one after the other, with reads, deletes and  *)
(* the clock between the calls of each.  SpecConcurrent is a burst of      *)
(* deliveries whose calls interleave, SpecFailure a Redis server that is   *)
(* unreachable at times.  SpecKeys feeds the handlers any serviceId and    *)
(* adds GET /sessions; SpecList lists a store of some five hundred keys,   *)
(* where the cap of the limit binds.  SpecHistory is the bounded-history shape of the    *)
(* store, which the specification describes and src/ does not hold.        *)
(*                                                                         *)
(* Python values: None is the empty tuple <<>> and a present Optional      *)
(* value s is <<s>>; a dict with fixed keys is a record; a dict used as a  *)
(* map (WEBHOOK_STORE) is the sequence of its <<key, value>> items in      *)
(* insertion order.  Time is counted in ticks; utc_now_iso() is the tick.  *)
(***************************************************************************)
EXTENDS Integers, Sequences, FiniteSets, TLC

VARIABLES
    deployment,           \* "inprocess" | "redis": which module serves
    WEBHOOK_STORE,        \* webhook_server.py:27
    PROCESSED_EVENT_IDS,  \* webhook_server.py:34
    redis,                \* the Redis database behind redis_webhook_server.py:18
    now,                  \* the clock read by utc_now_iso()
    lastOp,               \* the step taken last: [op, arg, call]; a request of the Redis ingestion
                          \*   that has yet to answer is op "redis_call", call the call it made
    resp,                 \* the response of that step, NoResponse when it sends none
    h_accepted,           \* history: per serviceId, the event accepted last since the last delete, its time,
                          \*          and whether it replaced a record that was still readable
    h_accepted_at,        \* history: per event id, the time it was last answered ok/stored (-1: never)
    h_marked,             \* history: per event id, the time its idempotency mark was last written (-1: never)
    backend_up,           \* the Redis server answers the client of redis_webhook_server.py:18
    inflight,             \* per slot, the Redis ingestion request running in it: the stretch it runs
                          \*   next, its event and its payload once built, or Idle
    h_request,            \* history: per numbered delivery, its event, whether a delivery of its id
                          \*          was running when it arrived, whether a mark of its id had run out
                          \*          by then, and its response
    h_list,               \* history: the number of accepted writes and, per serviceId, the number of
                          \*          its first write ever and of its first write since its last delete
    history,              \* the bounded-history store: per key, the retained records, oldest first
    h_puts                \* history: per key, the number of puts

vars == <<deployment, WEBHOOK_STORE, PROCESSED_EVENT_IDS, redis, now, lastOp, resp,
          h_accepted, h_accepted_at, h_marked, backend_up, inflight, h_request,
          h_list, history, h_puts>>

\* The variables of the bounded-history store.
historyVars == <<history, h_puts>>

\* The requests of the Redis ingestion that are between two calls, and the
\* reachability of the server they call.
stepVars == <<backend_up, inflight>>

progVars == <<deployment, WEBHOOK_STORE, PROCESSED_EVENT_IDS, redis>>

-----------------------------------------------------------------------------
(* Bounds and input sets *)

\* The clock stops at MaxNow ticks.
MaxNow == 2

\* REDIS_TTL_SECONDS (redis_webhook_server.py:16, from the environment), in ticks.
REDIS_TTL_SECONDS == 2

MESSAGE_TYPE == "amber.service:conversation:message"

EventIds == {"e1", "e2"}
ServiceIds == {"svc1", "svc2"}
EventTypes == {MESSAGE_TYPE, "amber.service:conversation:status"}
DataTypes == {"text", "image"}

\* Optional[str]: None (the field is absent or null) or a text.
None == <<>>
Some(v) == <<v>>
Texts == {None, Some("hi")}

\* The data of the deliveries: a text message with or without a text, and a
\* message of another data.type, which no handler reads the text of.
MessageData ==
    {d \in [id : {"m1"}, type : DataTypes, createdAt : {"c1"}, sentAt : {"s1"},
            by : {"user"}, serviceId : ServiceIds, text : Texts] :
        d.type = "text" \/ d.text = None}

\* The deliveries: every message event, and for every envelope type one event
\* per id.
Envelopes(types, data) ==
    [specversion : {"1.0"}, id : EventIds, type : types, source : {"tech4"},
     subject : {"conversation"}, time : {"t0"},
     datacontenttype : {"application/json"}, data : data]

CloudEventMessage ==
    Envelopes({MESSAGE_TYPE}, MessageData)
    \cup Envelopes(EventTypes, {d \in MessageData :
                                   d.type = "text" /\ d.serviceId = "svc1" /\ d.text = None})

\* The deliveries that SpecConcurrent and SpecFailure number, and their events:
\* text message events without a text, two of one id for two keys and two of
\* two ids for one key.
MaxRequests == 3
Requests == 1..MaxRequests
ConcurrentEvents ==
    {event \in CloudEventMessage :
        /\ event.type = MESSAGE_TYPE
        /\ event.data.type = "text"
        /\ event.data.text = None
        /\ event.id = "e1" \/ event.data.serviceId = "svc1"}

\* A slot no request is running in.
Idle == [pc |-> "idle"]

\* The history cap N (configurable), the puts made to one key, and what a put
\* carries besides its number.
HISTORY_MAX == 3
MaxPuts == HISTORY_MAX + 5
Bodies == {"a", "b"}

\* The limits asked of GET /sessions; 50 is the default.
ListLimits == {-1, 0, 1, 2, 50, 500, 501}

\* The wider inputs of SpecKeys: a third event id and the empty serviceId, in
\* text message events without a text.
WideEventIds == EventIds \cup {"e3"}
WideServiceIds == ServiceIds \cup {""}
WideEvents ==
    [specversion : {"1.0"}, id : WideEventIds, type : {MESSAGE_TYPE}, source : {"tech4"},
     subject : {"conversation"}, time : {"t0"}, datacontenttype : {"application/json"},
     data : [id : {"m1"}, type : {"text"}, createdAt : {"c1"}, sentAt : {"s1"},
             by : {"user"}, serviceId : WideServiceIds, text : {None}]]

-----------------------------------------------------------------------------
(* Python helpers *)

\* x or "" for an Optional[str]: None and "" both give "".
OrEmpty(x) == IF x = None \/ x[1] = "" THEN "" ELSE x[1]

utc_now_iso == now

\* BaseModel.model_dump(): the dict of the model's fields, nested models dumped too.
model_dump_data(d) ==
    [id |-> d.id, type |-> d.type, createdAt |-> d.createdAt, sentAt |-> d.sentAt,
     by |-> d.by, serviceId |-> d.serviceId, text |-> d.text]

model_dump(event) ==
    [specversion |-> event.specversion, id |-> event.id, type |-> event.type,
     source |-> event.source, subject |-> event.subject, time |-> event.time,
     datacontenttype |-> event.datacontenttype, data |-> model_dump_data(event.data)]

\* dict operations on a sequence of <<key, value>> items
DictHas(d, k) == \E i \in 1..Len(d) : d[i][1] = k
DictIndex(d, k) == CHOOSE i \in 1..Len(d) : d[i][1] = k
DictGet(d, k) == IF DictHas(d, k) THEN Some(d[DictIndex(d, k)][2]) ELSE None
\* Mutant: setdefault, an existing key keeps its value.
DictSet_setdefault(d, k, v) ==
    IF DictHas(d, k) THEN d ELSE Append(d, <<k, v>>)

DictSet(d, k, v) ==
    IF DictHas(d, k) THEN [d EXCEPT ![DictIndex(d, k)] = <<k, v>>]
    ELSE Append(d, <<k, v>>)
DictDel(d, k) == SelectSeq(d, LAMBDA item : item[1] # k)
DictKeys(d) == [i \in 1..Len(d) |-> d[i][1]]

\* Mutant: message_id is taken from the envelope id.
RecordOf_envelope_id(event, received_at) ==
    [service_id |-> event.data.serviceId,
     event_id |-> event.id,
     message_id |-> event.id,
     text |-> OrEmpty(event.data.text),
     by |-> event.data.by,
     created_at |-> event.data.createdAt,
     sent_at |-> event.data.sentAt,
     received_at |-> received_at,
     raw |-> model_dump(event)]

\* The record both handlers build from an accepted event.
RecordOf(event, received_at) ==
    [service_id |-> event.data.serviceId,
     event_id |-> event.id,
     message_id |-> event.data.id,
     text |-> OrEmpty(event.data.text),
     by |-> event.data.by,
     created_at |-> event.data.createdAt,
     sent_at |-> event.data.sentAt,
     received_at |-> received_at,
     raw |-> model_dump(event)]

-----------------------------------------------------------------------------
(* JSON: a text is modelled by its syntax tree.  An object is the sequence *)
(* of its <<name, value>> members in the order written; a value is a       *)
(* string, null or an object.                                              *)

JStr(s) == [t |-> "string", v |-> s]
JNull == [t |-> "null"]
JObj(members) == [t |-> "object", v |-> members]
JOpt(x) == IF x = None THEN JNull ELSE JStr(x[1])

json_dumps_data(d) ==
    JObj(<< <<"id", JStr(d.id)>>, <<"type", JStr(d.type)>>,
            <<"createdAt", JStr(d.createdAt)>>, <<"sentAt", JStr(d.sentAt)>>,
            <<"by", JStr(d.by)>>, <<"serviceId", JStr(d.serviceId)>>,
            <<"text", JOpt(d.text)>> >>)

json_dumps_raw(r) ==
    JObj(<< <<"specversion", JStr(r.specversion)>>, <<"id", JStr(r.id)>>,
            <<"type", JStr(r.type)>>, <<"source", JStr(r.source)>>,
            <<"subject", JStr(r.subject)>>, <<"time", JStr(r.time)>>,
            <<"datacontenttype", JStr(r.datacontenttype)>>,
            <<"data", json_dumps_data(r.data)>> >>)

json_dumps(payload) ==
    JObj(<< <<"service_id", JStr(payload.service_id)>>,
            <<"event_id", JStr(payload.event_id)>>,
            <<"message_id", JStr(payload.message_id)>>,
            <<"text", JStr(payload.text)>>,
            <<"by", JStr(payload.by)>>,
            <<"created_at", JStr(payload.created_at)>>,
            <<"sent_at", JStr(payload.sent_at)>>,
            <<"received_at", JStr(payload.received_at)>>,
            <<"raw", json_dumps_raw(payload.raw)>> >>)

\* The member of object j named n (json.dumps of a dict writes each name once).
JMember(j, n) == j.v[CHOOSE i \in 1..Len(j.v) : j.v[i][1] = n][2]
JText(j) == j.v
JOptText(j) == IF j.t = "null" THEN None ELSE Some(j.v)

json_loads_data(j) ==
    [id |-> JText(JMember(j, "id")), type |-> JText(JMember(j, "type")),
     createdAt |-> JText(JMember(j, "createdAt")),
     sentAt |-> JText(JMember(j, "sentAt")), by |-> JText(JMember(j, "by")),
     serviceId |-> JText(JMember(j, "serviceId")),
     text |-> JOptText(JMember(j, "text"))]

json_loads_raw(j) ==
    [specversion |-> JText(JMember(j, "specversion")), id |-> JText(JMember(j, "id")),
     type |-> JText(JMember(j, "type")), source |-> JText(JMember(j, "source")),
     subject |-> JText(JMember(j, "subject")), time |-> JText(JMember(j, "time")),
     datacontenttype |-> JText(JMember(j, "datacontenttype")),
     data |-> json_loads_data(JMember(j, "data"))]

json_loads(j) ==
    [service_id |-> JText(JMember(j, "service_id")),
     event_id |-> JText(JMember(j, "event_id")),
     message_id |-> JText(JMember(j, "message_id")),
     text |-> JText(JMember(j, "text")),
     by |-> JText(JMember(j, "by")),
     created_at |-> JText(JMember(j, "created_at")),
     sent_at |-> JText(JMember(j, "sent_at")),
     received_at |-> JText(JMember(j, "received_at")),
     raw |-> json_loads_raw(JMember(j, "raw"))]

-----------------------------------------------------------------------------
(* Redis: the database is a function from the live keys to [value, ttl],   *)
(* ttl the ticks left before the key expires.                              *)

k_event(event_id) == "tech4:event:" \o event_id
k_session(service_id) == "tech4:session:" \o service_id

redis_exists(db, key) == IF key \in DOMAIN db THEN 1 ELSE 0
redis_get(db, key) == IF key \in DOMAIN db THEN Some(db[key].value) ELSE None
\* Mutant: a key that exists keeps its value and its ttl.
redis_setex_nx(db, key, seconds, value) ==
    IF key \in DOMAIN db THEN db
    ELSE [k \in DOMAIN db \cup {key} |->
             IF k = key THEN [value |-> value, ttl |-> seconds] ELSE db[k]]

redis_setex(db, key, seconds, value) ==
    [k \in DOMAIN db \cup {key} |->
        IF k = key THEN [value |-> value, ttl |-> seconds] ELSE db[k]]
redis_delete_count(db, key) == IF key \in DOMAIN db THEN 1 ELSE 0
\* Mutant: the key is not removed.
redis_delete_noop(db, key) == db

redis_delete(db, key) == [k \in DOMAIN db \ {key} |-> db[k]]
\* Mutant: a key outlives its TTL by one tick.
redis_expire_late(db) ==
    [k \in {x \in DOMAIN db : db[x].ttl > 0} |->
        [db[k] EXCEPT !.ttl = IF @ > 0 THEN @ - 1 ELSE 0]]

\* One tick of the server's clock: every ttl counts down, a key at 0 is gone.
redis_expire(db) ==
    [k \in {x \in DOMAIN db : db[x].ttl > 1} |-> [db[k] EXCEPT !.ttl = @ - 1]]

-----------------------------------------------------------------------------
(* Responses: an HTTP status code with the JSON body the handler returns, *)
(* or the detail of the HTTPException it raises.                           *)

NoResponse == [status_code |-> 0]
Ok(body) == [status_code |-> 200, body |-> body]
HTTPException(code, detail) == [status_code |-> code, detail |-> detail]

-----------------------------------------------------------------------------
(* webhook_server.py: the in-process handlers *)

\* Mutant: the id is never added to the set.
mark_processed_forgotten(ids, event_id) == ids

\* PROCESSED_EVENT_IDS.add(event.id)
mark_processed(ids, event_id) == ids \cup {event_id}

\* Mutant: an event counts as a duplicate only when the record of its own
\* serviceId carries its id.
tech4_webhook_duplicate_per_key(event) ==
    /\ deployment = "inprocess"
    /\ IF event.type # MESSAGE_TYPE
       THEN /\ resp' = Ok([status |-> "ignored"])
            /\ UNCHANGED <<WEBHOOK_STORE, PROCESSED_EVENT_IDS>>
       ELSE IF /\ DictHas(WEBHOOK_STORE, event.data.serviceId)
               /\ DictGet(WEBHOOK_STORE, event.data.serviceId)[1].event_id = event.id
       THEN /\ resp' = Ok([status |-> "ignored", reason |-> "duplicate event"])
            /\ UNCHANGED <<WEBHOOK_STORE, PROCESSED_EVENT_IDS>>
       ELSE /\ PROCESSED_EVENT_IDS' = mark_processed(PROCESSED_EVENT_IDS, event.id)
            /\ IF event.data.type # "text"
               THEN /\ resp' = Ok([status |-> "ignored"])
                    /\ UNCHANGED WEBHOOK_STORE
               ELSE /\ WEBHOOK_STORE' = DictSet(WEBHOOK_STORE, event.data.serviceId,
                                                RecordOf(event, utc_now_iso))
                    /\ resp' = Ok([status |-> "ok"])
    /\ UNCHANGED <<deployment, redis>>

tech4_webhook(event) ==
    /\ deployment = "inprocess"
    /\ IF event.type # MESSAGE_TYPE
       THEN /\ resp' = Ok([status |-> "ignored"])
            /\ UNCHANGED <<WEBHOOK_STORE, PROCESSED_EVENT_IDS>>
       ELSE IF event.id \in PROCESSED_EVENT_IDS
       THEN /\ resp' = Ok([status |-> "ignored", reason |-> "duplicate event"])
            /\ UNCHANGED <<WEBHOOK_STORE, PROCESSED_EVENT_IDS>>
       ELSE /\ PROCESSED_EVENT_IDS' = mark_processed(PROCESSED_EVENT_IDS, event.id)
            /\ IF event.data.type # "text"
               THEN /\ resp' = Ok([status |-> "ignored"])
                    /\ UNCHANGED WEBHOOK_STORE
               ELSE LET service_id == event.data.serviceId
                    IN  /\ WEBHOOK_STORE' =
                               DictSet(WEBHOOK_STORE, service_id, RecordOf(event, utc_now_iso))
                        /\ resp' = Ok([status |-> "ok"])
    /\ UNCHANGED <<deployment, redis>>

get_latest_event_or_404(service_id) ==
    LET data == DictGet(WEBHOOK_STORE, service_id)
    IN  IF data = None \/ DOMAIN data[1] = {}
        THEN HTTPException(404, "No messages found for this serviceId")
        ELSE Ok(data[1])

get_latest_session_event(session_id) ==
    /\ deployment = "inprocess"
    /\ resp' = get_latest_event_or_404(session_id)
    /\ UNCHANGED progVars

\* Mutant: deleting a conversation also forgets the event id of its record.
delete_session_forgets_event(session_id) ==
    /\ deployment = "inprocess"
    /\ IF DictHas(WEBHOOK_STORE, session_id)
       THEN /\ WEBHOOK_STORE' = DictDel(WEBHOOK_STORE, session_id)
            /\ PROCESSED_EVENT_IDS' =
                   PROCESSED_EVENT_IDS \ {DictGet(WEBHOOK_STORE, session_id)[1].event_id}
            /\ resp' = Ok([status |-> "deleted", service_id |-> session_id])
       ELSE /\ resp' = HTTPException(404, "serviceId not found")
            /\ UNCHANGED <<WEBHOOK_STORE, PROCESSED_EVENT_IDS>>
    /\ UNCHANGED <<deployment, redis>>

delete_session(session_id) ==
    /\ deployment = "inprocess"
    /\ IF DictHas(WEBHOOK_STORE, session_id)
       THEN /\ WEBHOOK_STORE' = DictDel(WEBHOOK_STORE, session_id)
            /\ resp' = Ok([status |-> "deleted", service_id |-> session_id])
       ELSE /\ resp' = HTTPException(404, "serviceId not found")
            /\ UNCHANGED WEBHOOK_STORE
    /\ UNCHANGED <<deployment, PROCESSED_EVENT_IDS, redis>>

\* The bounds of the limit of GET /sessions.
LIST_LIMIT_FLOOR == 1
LIST_LIMIT_CAP == 500

\* s[:n]
SlicePrefix(s, n) ==
    IF n >= 0 THEN SubSeq(s, 1, IF n < Len(s) THEN n ELSE Len(s))
    ELSE SubSeq(s, 1, IF Len(s) + n > 0 THEN Len(s) + n ELSE 0)

\* Mutant: the limit is raised to the floor, and not capped.
list_sessions_no_cap(limit) ==
    /\ deployment = "inprocess"
    /\ LET keys == SlicePrefix(DictKeys(WEBHOOK_STORE),
                               IF LIST_LIMIT_FLOOR > limit THEN LIST_LIMIT_FLOOR ELSE limit)
       IN  resp' = Ok([count |-> Len(keys), service_ids |-> keys])
    /\ UNCHANGED progVars

list_sessions(limit) ==
    /\ deployment = "inprocess"
    /\ LET capped == IF limit < LIST_LIMIT_CAP THEN limit ELSE LIST_LIMIT_CAP
           keys == SlicePrefix(DictKeys(WEBHOOK_STORE),
                               IF LIST_LIMIT_FLOOR > capped THEN LIST_LIMIT_FLOOR ELSE capped)
       IN  resp' = Ok([count |-> Len(keys), service_ids |-> keys])
    /\ UNCHANGED progVars

-----------------------------------------------------------------------------
(* redis_webhook_server.py: the Redis handlers *)

\* REDIS_URL, from the environment
REDIS_URL == "redis://stratosphere.yaman.com.br:6379/0"

\* The redis client raises when the server is unreachable; no handler catches
\* it, and the framework answers 500.
InternalServerError == HTTPException(500, "Internal Server Error")

\* tech4_webhook_redis makes three calls to the Redis server (EXISTS, SETEX of
\* the mark, SETEX of the record) and waits for the reply of each; between two
\* calls time passes and other requests act on the database.  A stretch of the
\* handler ends in the database it leaves, the stretch the request runs next
\* ("done" once it has answered, "failed" once the client has raised), the
\* response and the payload the request holds (None until it is built).
Outcome(db, pc, response) ==
    [redis |-> db, pc |-> pc, resp |-> response, payload |-> None]

Finished(pc) == pc \in {"done", "failed"}

\* Mutant: the duplicate check looks the event id up under the session prefix.
redis_exists_step_session_key(event) ==
    IF event.type # MESSAGE_TYPE
    THEN Outcome(redis, "done", Ok([status |-> "ignored", reason |-> "unsupported type"]))
    ELSE IF ~backend_up
    THEN Outcome(redis, "failed", InternalServerError)
    ELSE IF redis_exists(redis, k_session(event.id)) # 0
    THEN Outcome(redis, "done", Ok([status |-> "ignored", reason |-> "duplicate event"]))
    ELSE Outcome(redis, "setex_event", NoResponse)

\* tech4_webhook_redis up to the reply of its first call: the type check and
\* redis.exists
redis_exists_step(event) ==
    IF event.type # MESSAGE_TYPE
    THEN Outcome(redis, "done", Ok([status |-> "ignored", reason |-> "unsupported type"]))
    ELSE IF ~backend_up
    THEN Outcome(redis, "failed", InternalServerError)
    ELSE IF redis_exists(redis, k_event(event.id)) # 0
    THEN Outcome(redis, "done", Ok([status |-> "ignored", reason |-> "duplicate event"]))
    ELSE Outcome(redis, "setex_event", NoResponse)

\* Mutant: the request goes on without writing the mark.
redis_setex_event_step_unmarked(event) ==
    IF ~backend_up
    THEN Outcome(redis, "failed", InternalServerError)
    ELSE IF event.data.type # "text"
    THEN Outcome(redis, "done",
                 Ok([status |-> "ignored", reason |-> "unsupported data.type"]))
    ELSE Outcome(redis, "payload", NoResponse)

\* Mutant: the data.type check is missing, every unseen message event goes on
\* to be stored.
redis_setex_event_step_unfiltered(event) ==
    IF ~backend_up
    THEN Outcome(redis, "failed", InternalServerError)
    ELSE Outcome(redis_setex(redis, k_event(event.id), REDIS_TTL_SECONDS, "1"),
                 "payload", NoResponse)

\* redis.setex(k_event(event.id), REDIS_TTL_SECONDS, "1"), then the data.type check
redis_setex_event_step(event) ==
    IF ~backend_up
    THEN Outcome(redis, "failed", InternalServerError)
    ELSE LET marked == redis_setex(redis, k_event(event.id), REDIS_TTL_SECONDS, "1")
         IN  IF event.data.type # "text"
             THEN Outcome(marked, "done",
                          Ok([status |-> "ignored", reason |-> "unsupported data.type"]))
             ELSE Outcome(marked, "payload", NoResponse)

\* The reply to the SETEX of the mark has come: the handler builds the payload
\* and reads the clock for its received_at.  No call to the server is made.
payload_step(event) ==
    [Outcome(redis, "setex_session", NoResponse)
        EXCEPT !.payload = Some(RecordOf(event, utc_now_iso))]

\* redis.setex(k_session(service_id), REDIS_TTL_SECONDS, json.dumps(payload)),
\* applied by the server with the payload as it was built, and the answer
redis_setex_session_step(event, payload) ==
    IF ~backend_up
    THEN Outcome(redis, "failed", InternalServerError)
    ELSE LET service_id == event.data.serviceId
         IN  Outcome(redis_setex(redis, k_session(service_id),
                                 REDIS_TTL_SECONDS, json_dumps(payload[1])),
                     "done",
                     Ok([status |-> "stored", backend |-> "redis",
                         service_id |-> service_id,
                         ttl_seconds |-> REDIS_TTL_SECONDS]))

\* The stretch of tech4_webhook_redis that a request at pc, holding payload,
\* runs next.
tech4_webhook_redis(pc, event, payload) ==
    IF pc = "exists" THEN redis_exists_step(event)
    ELSE IF pc = "setex_event" THEN redis_setex_event_step(event)
    ELSE IF pc = "payload" THEN payload_step(event)
    ELSE redis_setex_session_step(event, payload)

\* GET /health/redis
redis_health ==
    Ok([status |-> "up", now_utc |-> utc_now_iso,
        ttl_seconds |-> REDIS_TTL_SECONDS, redis_url |-> REDIS_URL])

\* Mutant: the read restarts the TTL of the record it returns (GETEX).
get_latest_session_redis_getex(service_id) ==
    /\ deployment = "redis"
    /\ LET data == redis_get(redis, k_session(service_id))
       IN  IF data = None
           THEN /\ resp' = HTTPException(404, "No messages found for this serviceId (Redis)")
                /\ UNCHANGED redis
           ELSE /\ resp' = Ok(json_loads(data[1]))
                /\ redis' = redis_setex(redis, k_session(service_id),
                                        REDIS_TTL_SECONDS, data[1])
    /\ UNCHANGED <<deployment, WEBHOOK_STORE, PROCESSED_EVENT_IDS>>

get_latest_session_redis(service_id) ==
    /\ deployment = "redis"
    /\ LET data == redis_get(redis, k_session(service_id))
       IN  resp' = IF data = None
                   THEN HTTPException(404, "No messages found for this serviceId (Redis)")
                   ELSE Ok(json_loads(data[1]))
    /\ UNCHANGED progVars

delete_session_redis(service_id) ==
    /\ deployment = "redis"
    /\ LET deleted == redis_delete_count(redis, k_session(service_id))
       IN  /\ redis' = redis_delete(redis, k_session(service_id))
           /\ resp' = IF deleted # 0
                      THEN Ok([status |-> "deleted", backend |-> "redis",
                               service_id |-> service_id])
                      ELSE HTTPException(404, "serviceId not found (Redis)")
    /\ UNCHANGED <<deployment, WEBHOOK_STORE, PROCESSED_EVENT_IDS>>

-----------------------------------------------------------------------------
(* Observations shared by the two deployments *)

\* The idempotency mark of event_id is live.
Seen(event_id) ==
    IF deployment = "inprocess" THEN event_id \in PROCESSED_EVENT_IDS
    ELSE redis_exists(redis, k_event(event_id)) = 1

\* What GET /sessions/{k}/latest answers in the current state.
getLatest(k) ==
    IF deployment = "inprocess" THEN get_latest_event_or_404(k)
    ELSE LET data == redis_get(redis, k_session(k))
         IN  IF data = None
             THEN HTTPException(404, "No messages found for this serviceId (Redis)")
             ELSE Ok(json_loads(data[1]))

Accepted(r) ==
    /\ r.status_code = 200
    /\ r.body.status \in {"ok", "stored"}

IsWebhook(op) == op \in {"tech4_webhook", "tech4_webhook_redis"}
IsDelete(op) == op \in {"delete_session", "delete_session_redis"}
IsGet(op) == op \in {"get_latest_session_event", "get_latest_session_redis"}

\* The step taken: the handler, its argument and, for the Redis ingestion,
\* the call of the handler that was made.
Op(op, arg, call) == [op |-> op, arg |-> arg, call |-> call]

\* The mark of event id e is written in this step.
MarkWritten(e) ==
    IF deployment = "inprocess" THEN ~Seen(e) /\ Seen(e)'
    ELSE /\ k_event(e) \in DOMAIN redis'
         /\ k_event(e) \in DOMAIN redis => redis'[k_event(e)] # redis[k_event(e)]

Marked ==
    h_marked' = [e \in EventIds |-> IF MarkWritten(e) THEN now ELSE h_marked[e]]

\* The history of a request, read off its response and the marks.
History ==
    /\ h_accepted' =
          IF IsWebhook(lastOp'.op) /\ Accepted(resp')
          THEN [h_accepted EXCEPT ![lastOp'.arg.data.serviceId] =
                   Some([event |-> lastOp'.arg, at |-> now,
                         over |-> getLatest(lastOp'.arg.data.serviceId).status_code = 200])]
          ELSE IF IsDelete(lastOp'.op) /\ resp'.status_code = 200
          THEN [h_accepted EXCEPT ![lastOp'.arg] = None]
          ELSE h_accepted
    /\ h_accepted_at' =
          IF IsWebhook(lastOp'.op) /\ Accepted(resp')
          THEN [h_accepted_at EXCEPT ![lastOp'.arg.id] = now] ELSE h_accepted_at
    /\ Marked

\* A handler that is one step.
Observe(op, arg) ==
    /\ lastOp' = Op(op, arg, None)
    /\ History
    /\ UNCHANGED <<now, stepVars, h_request, h_list, historyVars>>

-----------------------------------------------------------------------------
(* The state machine *)

Init ==
    /\ deployment \in {"inprocess", "redis"}
    /\ WEBHOOK_STORE = <<>>
    /\ PROCESSED_EVENT_IDS = {}
    /\ redis = <<>>
    /\ now = 0
    /\ lastOp = Op("none", None, None)
    /\ resp = NoResponse
    /\ h_accepted = [k \in ServiceIds |-> None]
    /\ h_accepted_at = [e \in EventIds |-> -1]
    /\ h_marked = [e \in EventIds |-> -1]
    /\ backend_up = TRUE
    /\ inflight = [r \in Requests |-> Idle]
    /\ h_request = [r \in Requests |-> None]
    /\ h_list = [n |-> 0,
                 first |-> [k \in WideServiceIds |-> 0],
                 since |-> [k \in WideServiceIds |-> 0]]
    /\ history = [k \in ServiceIds |-> <<>>]
    /\ h_puts = [k \in ServiceIds |-> 0]

\* Slot r holds a request that is between two Redis calls.
Running(r) == inflight[r] # Idle

Request(pc, event, payload) == [pc |-> pc, event |-> event, payload |-> payload]

\* The payload the request of slot r holds, None when it has built none.
PayloadOf(r) == IF Running(r) THEN inflight[r].payload ELSE None

\* The slot an arriving request takes: the lowest idle one.
FreeSlot(r) ==
    /\ inflight[r] = Idle
    /\ \A q \in Requests : q < r => inflight[q] # Idle

\* The request of slot r, for event, runs the stretch pc of tech4_webhook_redis:
\* to the next call, to the payload, or to its answer.
Call(r, pc, event) ==
    /\ deployment = "redis"
    /\ LET out == tech4_webhook_redis(pc, event, PayloadOf(r))
       IN  /\ redis' = out.redis
           /\ inflight' = [inflight EXCEPT ![r] =
                 IF Finished(out.pc) THEN Idle
                 ELSE Request(out.pc, event, out.payload)]
    /\ UNCHANGED <<deployment, WEBHOOK_STORE, PROCESSED_EVENT_IDS>>

\* The response the handler sends in that stretch, NoResponse when it goes on
\* to its next call.
Reply(r, pc, event) == tech4_webhook_redis(pc, event, PayloadOf(r)).resp

\* A stretch of the Redis ingestion with its response and its history.
ObserveCall(r, pc, event) ==
    /\ resp' = Reply(r, pc, event)
    /\ lastOp' = Op(IF resp' = NoResponse THEN "redis_call" ELSE "tech4_webhook_redis",
                    event, pc)
    /\ History
    /\ UNCHANGED <<now, backend_up, h_request, h_list, historyVars>>

PostWebhook == \E event \in CloudEventMessage :
    tech4_webhook(event) /\ Observe("tech4_webhook", event)

GetLatest == \E k \in ServiceIds :
    get_latest_session_event(k) /\ Observe("get_latest_session_event", k)

DeleteSession == \E k \in ServiceIds :
    delete_session(k) /\ Observe("delete_session", k)

\* POST /webhook/tech4/redis arrives while no other POST is running: the
\* handler runs to the reply of EXISTS.
PostWebhookRedis == \E r \in Requests, event \in CloudEventMessage :
    /\ FreeSlot(r)
    /\ \A q \in Requests : ~Running(q)
    /\ Call(r, "exists", event)
    /\ ObserveCall(r, "exists", event)

\* The running request makes the SETEX of the mark.
SetexEvent == \E r \in Requests :
    /\ inflight[r].pc = "setex_event"
    /\ Call(r, "setex_event", inflight[r].event)
    /\ ObserveCall(r, "setex_event", inflight[r].event)

\* The running request builds its payload.
Payload == \E r \in Requests :
    /\ inflight[r].pc = "payload"
    /\ Call(r, "payload", inflight[r].event)
    /\ ObserveCall(r, "payload", inflight[r].event)

\* The running request makes the SETEX of the record and answers.
SetexSession == \E r \in Requests :
    /\ inflight[r].pc = "setex_session"
    /\ Call(r, "setex_session", inflight[r].event)
    /\ ObserveCall(r, "setex_session", inflight[r].event)

GetLatestRedis == \E k \in ServiceIds :
    get_latest_session_redis(k) /\ Observe("get_latest_session_redis", k)

DeleteSessionRedis == \E k \in ServiceIds :
    delete_session_redis(k) /\ Observe("delete_session_redis", k)

\* Time passes: the clock advances and Redis expires what has run out.
Tick ==
    /\ now < MaxNow
    /\ now' = now + 1
    /\ redis' = redis_expire(redis)
    /\ lastOp' = Op("tick", None, None)
    /\ resp' = NoResponse
    /\ UNCHANGED <<deployment, WEBHOOK_STORE, PROCESSED_EVENT_IDS,
                   h_accepted, h_accepted_at, h_marked, stepVars, h_request, h_list,
                   historyVars>>

Next ==
    \/ PostWebhook
    \/ GetLatest
    \/ DeleteSession
    \/ PostWebhookRedis
    \/ SetexEvent
    \/ Payload
    \/ SetexSession
    \/ GetLatestRedis
    \/ DeleteSessionRedis
    \/ Tick

Spec == Init /\ [][Next]_vars

-----------------------------------------------------------------------------
(* Vocabulary of the properties *)

\* The record store: every key's record and, in Redis, its remaining TTL.
\* The idempotency marks are not part of it.
EventKeys == {k_event(e) : e \in EventIds}
RecordStore ==
    <<WEBHOOK_STORE, [key \in DOMAIN redis \ EventKeys |-> redis[key]]>>

\* The idempotency marks, with their remaining TTL in Redis.
Marks ==
    <<PROCESSED_EVENT_IDS, [key \in DOMAIN redis \cap EventKeys |-> redis[key]]>>

\* What is stored under key k: the record and, in Redis, its remaining TTL.
Stored(k) ==
    IF deployment = "inprocess" THEN DictGet(WEBHOOK_STORE, k)
    ELSE IF k_session(k) \in DOMAIN redis THEN Some(redis[k_session(k)]) ELSE None

Found(k) == getLatest(k).status_code = 200
NotFound(k) == getLatest(k).status_code = 404

Duplicate == Ok([status |-> "ignored", reason |-> "duplicate event"])

\* The reasons of the checks that event fails.
FailingReasons(event) ==
    {r \in {"unsupported type", "duplicate event", "unsupported data.type"} :
        \/ r = "unsupported type" /\ event.type # MESSAGE_TYPE
        \/ r = "duplicate event" /\ Seen(event.id)
        \/ r = "unsupported data.type" /\ event.data.type # "text"}

\* This step is a stretch of an ingestion: the whole of tech4_webhook, or
\* tech4_webhook_redis from one Redis call to the next.
WebhookStep == lastOp'.op \in {"tech4_webhook", "tech4_webhook_redis", "redis_call"}

\* This step is the arrival of a delivery: the ingestion as far as its duplicate
\* check, at least.
Delivers ==
    \/ lastOp'.op = "tech4_webhook"
    \/ lastOp'.op \in {"tech4_webhook_redis", "redis_call"} /\ lastOp'.call = "exists"

\* The mark of event id e was written and, going by the time of it, has not run
\* out (the in-process set never drops an id).
MarkExpected(e) ==
    /\ h_marked[e] >= 0
    /\ deployment = "inprocess" \/ now - h_marked[e] < REDIS_TTL_SECONDS

\* This step delivers an event whose id was accepted before and whose mark is live.
RedeliveryOfAccepted ==
    /\ Delivers
    /\ h_accepted_at[lastOp'.arg.id] >= 0
    /\ Seen(lastOp'.arg.id) \/ MarkExpected(lastOp'.arg.id)

-----------------------------------------------------------------------------
(* C1 *)

\* C1 as stated: every later delivery carrying the id of an accepted event, while
\* the mark is live, is answered {ignored, duplicate event} and leaves the record
\* store as it was.  A delivery whose envelope type is not the message type is
\* answered by the type check before the duplicate check is reached.
C1_AnyRedeliveryIsDuplicate ==
    [][RedeliveryOfAccepted => (resp' = Duplicate /\ UNCHANGED RecordStore)]_vars

\* C1 (amended): every later delivery of the conversation-message type carrying the
\* id of an accepted event, with the same or different data, while the mark is
\* live, is answered {ignored, duplicate event}, and the record store is left
\* exactly as it was.
C1_RedeliveryIsDuplicate ==
    [][(RedeliveryOfAccepted /\ lastOp'.arg.type = MESSAGE_TYPE)
          => (resp' = Duplicate /\ UNCHANGED RecordStore)]_vars

\* A delivery with the id of a stored record and other data was answered duplicate.
C1_Witness ==
    /\ IsWebhook(lastOp.op)
    /\ resp = Duplicate
    /\ h_accepted_at[lastOp.arg.id] >= 0
    /\ \E k \in ServiceIds :
          /\ Found(k)
          /\ getLatest(k).body.event_id = lastOp.arg.id
          /\ getLatest(k).body.raw.data # lastOp.arg.data

-----------------------------------------------------------------------------
(* C2 *)

\* C2: an ingestion changes the record store only if the event passes all three
\* checks (the duplicate check is made when the delivery arrives), and it is then
\* answered ok/stored; an event failing any of them is answered 200 with status
\* "ignored" (nothing is raised), its request never comes to the store write, and
\* the record store, TTLs included, is unchanged.
C2_AcceptancePolicy ==
    [][WebhookStep =>
          LET event == lastOp'.arg
              fails == \/ event.type # MESSAGE_TYPE
                       \/ event.data.type # "text"
                       \/ Delivers /\ Seen(event.id)
          IN  /\ RecordStore' # RecordStore => (~fails /\ Accepted(resp'))
              /\ fails =>
                    /\ UNCHANGED RecordStore
                    /\ resp' # NoResponse =>
                          (resp'.status_code = 200 /\ resp'.body.status = "ignored")
                    /\ (Delivers /\ (event.type # MESSAGE_TYPE \/ Seen(event.id))) =>
                          resp' # NoResponse
                    /\ \A r \in Requests :
                          inflight'[r].pc \notin {"payload", "setex_session"}]_vars

\* A message event with an unsupported data.type was ignored while its key holds
\* the record of another event.
C2_Witness ==
    /\ IsWebhook(lastOp.op)
    /\ lastOp.arg.type = MESSAGE_TYPE
    /\ lastOp.arg.data.type # "text"
    /\ resp.body.status = "ignored"
    /\ Found(lastOp.arg.data.serviceId)
    /\ getLatest(lastOp.arg.data.serviceId).body.event_id # lastOp.arg.id

-----------------------------------------------------------------------------
(* C3 *)

\* C3: every ignored structured event is answered with a reason, and the reason
\* names a check the event failed.
C3_IgnoredHasReason ==
    [][(IsWebhook(lastOp'.op) /\ resp'.body.status = "ignored") =>
          /\ "reason" \in DOMAIN resp'.body
          /\ resp'.body.reason \in FailingReasons(lastOp'.arg)]_vars

-----------------------------------------------------------------------------
(* C4 *)

\* C4: a mark is created only by an ingestion that passes all three checks and
\* writes the store: by the accepted request in process, by a request that goes on
\* to write the store in Redis.
C4_MarkOnlyOnSuccess ==
    [][\A e \in EventIds :
          (~Seen(e) /\ Seen(e)') =>
              /\ WebhookStep
              /\ lastOp'.arg.id = e
              /\ IF deployment = "inprocess" THEN Accepted(resp')
                 ELSE \E r \in Requests :
                         inflight'[r] = Request("payload", lastOp'.arg, None)]_vars

-----------------------------------------------------------------------------
(* C5 *)

\* The event accepted last for key k (since the last delete of k), and the time
\* passed since.  Only Redis expires: the in-process store keeps a record until
\* it is deleted.
Written(k) == h_accepted[k] # None
LastEvent(k) == h_accepted[k][1].event
Age(k) == now - h_accepted[k][1].at
Unexpired(k) == deployment = "inprocess" \/ Age(k) < REDIS_TTL_SECONDS

\* C5: after event E is accepted, and before a later write, delete or expiry of
\* its key, getLatest(E.data.serviceId) returns a record with service_id, event_id,
\* message_id, text (the empty string when absent), by, created_at, sent_at taken
\* from E, and raw equal to the envelope.
C5_IngestThenRead ==
    \A k \in ServiceIds :
        (Written(k) /\ Unexpired(k)) =>
            LET E == LastEvent(k)
                r == getLatest(k)
            IN  /\ E.data.serviceId = k
                /\ r.status_code = 200
                /\ r.body.service_id = E.data.serviceId
                /\ r.body.event_id = E.id
                /\ r.body.message_id = E.data.id
                /\ r.body.text = (IF E.data.text = None THEN "" ELSE E.data.text[1])
                /\ r.body.by = E.data.by
                /\ r.body.created_at = E.data.createdAt
                /\ r.body.sent_at = E.data.sentAt
                /\ r.body.raw = E

\* An event without text was just stored in Redis and reads back with text "".
C5_Witness ==
    /\ lastOp.op = "tech4_webhook_redis"
    /\ Accepted(resp)
    /\ lastOp.arg.data.text = None
    /\ Found(lastOp.arg.data.serviceId)
    /\ getLatest(lastOp.arg.data.serviceId).body.text = ""
    /\ getLatest(lastOp.arg.data.serviceId).body.event_id = lastOp.arg.id

-----------------------------------------------------------------------------
(* C6 *)

\* C6: each key holds at most one record, and getLatest(k) is exactly the record
\* of the event accepted last for k (no field of an earlier record survives; its
\* received_at is a reading of the clock no later than the write), or not-found
\* when no event was accepted for k since its last delete or expiry.
C6_LatestOnly ==
    /\ \A i, j \in 1..Len(WEBHOOK_STORE) :
          WEBHOOK_STORE[i][1] = WEBHOOK_STORE[j][1] => i = j
    /\ \A k \in ServiceIds :
          IF Written(k) /\ Unexpired(k)
          THEN \E t \in 0..h_accepted[k][1].at :
                   getLatest(k) = Ok(RecordOf(LastEvent(k), t))
          ELSE NotFound(k)

\* A record without text replaced an earlier, still readable record of the same key.
C6_Witness ==
    /\ deployment = "inprocess"
    /\ \E k \in ServiceIds :
          /\ Written(k) /\ h_accepted[k][1].over
          /\ Found(k)
          /\ getLatest(k).body.text = ""
    /\ Len(WEBHOOK_STORE) = 1

-----------------------------------------------------------------------------
(* C7 *)

\* C7: delete(k) of a readable record answers "deleted" and getLatest(k) is
\* not-found afterwards, the other keys' records being untouched; delete(k) of a
\* key without a readable record answers 404 and changes nothing.  Either way
\* k is not-found after the delete, so a second delete in a row answers 404.
C7_Delete ==
    [][\A k \in ServiceIds :
          (IsDelete(lastOp'.op) /\ lastOp'.arg = k) =>
              /\ NotFound(k)'
              /\ Found(k) =>
                    /\ resp'.status_code = 200
                    /\ resp'.body.status = "deleted"
                    /\ \A j \in ServiceIds \ {k} : Stored(j)' = Stored(j)
              /\ NotFound(k) =>
                    /\ resp'.status_code = 404
                    /\ UNCHANGED <<RecordStore, Marks>>]_vars

\* A delete answered "deleted", the key reads not-found and the other key's record
\* is still there.
C7_Witness ==
    /\ lastOp.op = "delete_session_redis"
    /\ resp.status_code = 200
    /\ resp.body.status = "deleted"
    /\ NotFound(lastOp.arg)
    /\ \E j \in ServiceIds \ {lastOp.arg} : Found(j)

-----------------------------------------------------------------------------
(* C8 *)

\* This step is an accepted write to key k.
WritesTo(k) ==
    /\ IsWebhook(lastOp'.op)
    /\ Accepted(resp')
    /\ lastOp'.arg.data.serviceId = k

\* C8 as stated: in Redis, a record written for k is returned at every instant
\* before the TTL has elapsed since the most recent write to k, and is not-found
\* at every instant after it, absent a new write.
C8_ReadableUntilTtl ==
    [][\A k \in ServiceIds :
          (deployment = "redis" /\ Written(k) /\ ~WritesTo(k)) =>
              (Found(k)' <=> now' - h_accepted[k][1].at < REDIS_TTL_SECONDS)]_vars

\* C8 (amended): in Redis, a record written for k and not deleted since is returned
\* at every instant before the TTL has elapsed since the most recent write to k and
\* is not-found at every instant after; each accepted write restarts the TTL, so
\* the time left is the TTL less the time since the most recent write.
C8_RecordTtl ==
    deployment = "redis" =>
        \A k \in ServiceIds :
            IF Written(k)
            THEN /\ Found(k) <=> Age(k) < REDIS_TTL_SECONDS
                 /\ Found(k) => redis[k_session(k)].ttl = REDIS_TTL_SECONDS - Age(k)
            ELSE NotFound(k)

\* One record has run out; another, written again over a readable record, is
\* still returned.
C8_Witness ==
    /\ deployment = "redis"
    /\ \E k \in ServiceIds :
          Written(k) /\ Age(k) >= REDIS_TTL_SECONDS /\ NotFound(k)
    /\ \E k \in ServiceIds :
          Written(k) /\ h_accepted[k][1].over /\ Found(k)

-----------------------------------------------------------------------------
(* C9 *)

\* C9: in both handlers a mark has a time-to-live: once the TTL has elapsed since
\* the mark of e was written, a message event with id e and data.type "text" that
\* is delivered passes the duplicate check (it is accepted in process, it goes on
\* to write its mark in Redis), and is not reported as duplicate.
C9_MarkExpires ==
    [][(/\ Delivers
        /\ lastOp'.arg.type = MESSAGE_TYPE
        /\ lastOp'.arg.data.type = "text"
        /\ h_marked[lastOp'.arg.id] >= 0
        /\ now - h_marked[lastOp'.arg.id] >= REDIS_TTL_SECONDS)
          => IF deployment = "inprocess" THEN Accepted(resp')
             ELSE \E r \in Requests :
                     inflight'[r] = Request("setex_event", lastOp'.arg, None)]_vars

-----------------------------------------------------------------------------
(* C10 *)

\* C10: marks and records have independent lifetimes.  A delete leaves the marks
\* as they are; a mark is removed only by the passing of time, and only when its
\* own TTL has elapsed; when time passes, a record whose own TTL has not elapsed
\* keeps its value, one tick older (whichever marks expire), and a mark whose own
\* TTL has not elapsed stays (whichever records expire).  A message event whose mark is live, delivered
\* while key k is not-found (after delete(k), say), is ignored as duplicate and k
\* stays not-found.
C10_IndependentLifetimes ==
    [][/\ IsDelete(lastOp'.op) => UNCHANGED Marks
       /\ \A e \in EventIds :
             (Seen(e) /\ ~Seen(e)') =>
                 (lastOp'.op = "tick" /\ now' - h_marked[e] >= REDIS_TTL_SECONDS)
       /\ lastOp'.op = "tick" =>
             /\ \A e \in EventIds :
                   (Seen(e) /\ now' - h_marked[e] < REDIS_TTL_SECONDS) => Seen(e)'
             /\ \A k \in ServiceIds :
                   (/\ Found(k)
                    /\ deployment = "inprocess" \/ now' - h_accepted[k][1].at < REDIS_TTL_SECONDS)
                       => Stored(k)' = [Stored(k) EXCEPT ![1] =
                                           IF deployment = "inprocess" THEN @
                                           ELSE [@ EXCEPT !.ttl = @ - 1]]
       /\ (/\ Delivers
           /\ lastOp'.arg.type = MESSAGE_TYPE
           /\ Seen(lastOp'.arg.id)) =>
             \A k \in ServiceIds :
                 NotFound(k) => (resp' = Duplicate /\ NotFound(k)')]_vars

\* A text message event E for key k, whose id was accepted under k and whose
\* mark is live, was delivered again after delete(k) and answered duplicate, and
\* k holds no record.  That the id was accepted under k: it was last accepted
\* after the last write to every other key, which is still in place.  That k was
\* deleted since: no event is on record as accepted under k, which only a
\* delete brings about.
C10_Witness ==
    LET E == lastOp.arg
        k == E.data.serviceId
    IN  /\ IsWebhook(lastOp.op)
        /\ resp = Duplicate
        /\ E.type = MESSAGE_TYPE
        /\ E.data.type = "text"
        /\ MarkExpected(E.id)
        /\ h_accepted_at[E.id] >= 0
        /\ \A s \in ServiceIds \ {k} :
               Written(s) /\ h_accepted[s][1].at < h_accepted_at[E.id]
        /\ ~Written(k)
        /\ NotFound(k)

-----------------------------------------------------------------------------
(* C11 *)

\* This step delivers an event whose id is that of the event accepted last for
\* key s1, under another serviceId s2.
SameIdOtherKey(s1, s2) ==
    /\ Delivers
    /\ Written(s1)
    /\ LastEvent(s1).id = lastOp'.arg.id
    /\ lastOp'.arg.data.serviceId = s2
    /\ s2 # s1

\* C11 as stated: once an event with id e and serviceId s1 was accepted, every
\* later event with id e and another serviceId s2 is ignored as a duplicate, with
\* no record created or changed under s2 and the record of s1 unchanged.  A later
\* event of another envelope type is answered by the type check, and in Redis a
\* later event arriving after the mark's TTL has elapsed is accepted.
C11_AnyLaterEventIsDuplicate ==
    [][\A s1, s2 \in ServiceIds :
          SameIdOtherKey(s1, s2) =>
              /\ resp' = Duplicate
              /\ Stored(s2)' = Stored(s2)
              /\ Stored(s1)' = Stored(s1)]_vars

\* C11 (amended): duplicates are detected by event id alone, whichever key the
\* event maps to: once an event with id e and serviceId s1 was accepted, a later
\* event of the conversation-message type with id e and another serviceId s2,
\* delivered while the mark of e is live, is ignored as a duplicate; no record is
\* created or changed under s2 and what is stored under s1 is unchanged.
C11_DuplicateByIdAlone ==
    [][\A s1, s2 \in ServiceIds :
          (/\ SameIdOtherKey(s1, s2)
           /\ lastOp'.arg.type = MESSAGE_TYPE
           /\ Seen(lastOp'.arg.id) \/ MarkExpected(lastOp'.arg.id))
              => /\ resp' = Duplicate
                 /\ Stored(s2)' = Stored(s2)
                 /\ Stored(s1)' = Stored(s1)]_vars

\* An event with the id of the record readable under s1 was delivered under
\* another serviceId and answered duplicate; that serviceId holds no record.
C11_Witness ==
    /\ IsWebhook(lastOp.op)
    /\ resp = Duplicate
    /\ NotFound(lastOp.arg.data.serviceId)
    /\ \E s1 \in ServiceIds \ {lastOp.arg.data.serviceId} :
          /\ Found(s1)
          /\ getLatest(s1).body.event_id = lastOp.arg.id

-----------------------------------------------------------------------------
(* Numbered deliveries: a burst of deliveries to one Redis database, each  *)
(* kept on record with the requests that were running when it arrived and  *)
(* with its response; and a Redis server that comes and goes.  The         *)
(* in-process handler keeps its state in its own process and runs as one   *)
(* step.                                                                   *)

\* A delivery on record.
Delivery(event, raced, expired, response) ==
    [event |-> event, raced |-> raced, expired |-> expired, resp |-> response]

\* Deliveries are numbered in the order they arrive.
Arrives(r) ==
    /\ h_request[r] = None
    /\ \A q \in Requests : q < r => h_request[q] # None

\* A delivery of event id e is between two Redis calls.
RunningSameId(e) == \E q \in Requests : Running(q) /\ inflight[q].event.id = e

\* A mark of event id e was written and has run out.
MarkRanOut(e) == h_marked[e] >= 0 /\ now - h_marked[e] >= REDIS_TTL_SECONDS

\* What a numbered delivery leaves alone.
StepFrame ==
    UNCHANGED <<now, lastOp, resp, h_accepted, h_accepted_at, backend_up,
                h_list, historyVars>>

\* Delivery r arrives at POST /webhook/tech4/redis and runs in slot r.
Deliver == \E r \in Requests, event \in ConcurrentEvents :
    /\ Arrives(r)
    /\ Call(r, "exists", event)
    /\ h_request' = [h_request EXCEPT ![r] =
                        Some(Delivery(event, RunningSameId(event.id),
                                      MarkRanOut(event.id), Reply(r, "exists", event)))]
    /\ Marked
    /\ StepFrame

\* A delivery makes the SETEX of the mark.
DeliverSetexEvent == \E r \in Requests :
    /\ inflight[r].pc = "setex_event"
    /\ Call(r, "setex_event", inflight[r].event)
    /\ h_request' = [h_request EXCEPT ![r] =
          Some([h_request[r][1] EXCEPT !.resp = Reply(r, "setex_event", inflight[r].event)])]
    /\ Marked
    /\ StepFrame

\* A delivery builds its payload.
DeliverPayload == \E r \in Requests :
    /\ inflight[r].pc = "payload"
    /\ Call(r, "payload", inflight[r].event)
    /\ UNCHANGED h_request
    /\ Marked
    /\ StepFrame

\* A delivery makes the SETEX of the record and answers.
DeliverSetexSession == \E r \in Requests :
    /\ inflight[r].pc = "setex_session"
    /\ Call(r, "setex_session", inflight[r].event)
    /\ h_request' = [h_request EXCEPT ![r] =
          Some([h_request[r][1] EXCEPT !.resp = Reply(r, "setex_session", inflight[r].event)])]
    /\ Marked
    /\ StepFrame

\* The in-process handler: the whole of tech4_webhook in one step.
DeliverInProcess == \E r \in Requests, event \in ConcurrentEvents :
    /\ Arrives(r)
    /\ tech4_webhook(event)
    /\ lastOp' = Op("tech4_webhook", event, None)
    /\ h_request' = [h_request EXCEPT ![r] = Some(Delivery(event, FALSE, FALSE, resp'))]
    /\ Marked
    /\ UNCHANGED <<now, h_accepted, h_accepted_at, stepVars, h_list, historyVars>>

\* The Redis server becomes unreachable, or reachable again.
BackendDown ==
    /\ deployment = "redis"
    /\ backend_up
    /\ backend_up' = FALSE
    /\ lastOp' = Op("backend_down", None, None)
    /\ resp' = NoResponse
    /\ UNCHANGED <<progVars, now, h_accepted, h_accepted_at, h_marked, inflight, h_request,
                   h_list, historyVars>>

BackendUp ==
    /\ deployment = "redis"
    /\ ~backend_up
    /\ backend_up' = TRUE
    /\ lastOp' = Op("backend_up", None, None)
    /\ resp' = NoResponse
    /\ UNCHANGED <<progVars, now, h_accepted, h_accepted_at, h_marked, inflight, h_request,
                   h_list, historyVars>>

RedisHealth ==
    /\ deployment = "redis"
    /\ resp' = redis_health
    /\ lastOp' = Op("redis_health", None, None)
    /\ UNCHANGED <<progVars, now, h_accepted, h_accepted_at, h_marked, stepVars, h_request,
                   h_list, historyVars>>

\* A burst of deliveries on a reachable server.
NextConcurrent ==
    \/ Deliver
    \/ DeliverSetexEvent
    \/ DeliverPayload
    \/ DeliverSetexSession
    \/ DeliverInProcess
    \/ Tick

SpecConcurrent == Init /\ [][NextConcurrent]_vars

\* A delivery arrives while no other is running.
DeliverAlone == \E r \in Requests, event \in ConcurrentEvents :
    /\ \A q \in Requests : ~Running(q)
    /\ Arrives(r)
    /\ Call(r, "exists", event)
    /\ h_request' = [h_request EXCEPT ![r] =
                        Some(Delivery(event, FALSE, MarkRanOut(event.id),
                                      Reply(r, "exists", event)))]
    /\ Marked
    /\ StepFrame

\* One delivery at a time on a server that comes and goes.
NextFailure ==
    \/ DeliverAlone
    \/ DeliverSetexEvent
    \/ DeliverPayload
    \/ DeliverSetexSession
    \/ BackendDown
    \/ BackendUp
    \/ RedisHealth
    \/ Tick

SpecFailure == Init /\ [][NextFailure]_vars

-----------------------------------------------------------------------------
(* C12 *)

\* The deliveries of event id e that wrote the record store.
Writers(e) ==
    {r \in Requests :
        /\ h_request[r] # None
        /\ h_request[r][1].event.id = e
        /\ h_request[r][1].resp.status_code = 200
        /\ Accepted(h_request[r][1].resp)}

\* Delivery r arrived while another delivery of its event id was running.
RacedSameId(r) == h_request[r][1].raced

\* C12 as stated: whatever the number of concurrent deliveries of one event id and
\* however they interleave, the record store is written at most twice for that id.
C12_AtMostOneDoubleStore ==
    \A e \in EventIds : Cardinality(Writers(e)) <= 2

\* C12 (amended): with the duplicate check and the mark write as separate steps,
\* every delivery that passes the check before the first mark is written stores,
\* so n concurrent deliveries of one id write the store up to n times; of the
\* deliveries of one id that write the store, at most one neither arrived while
\* another delivery of that id was running nor arrived after a mark of the id had
\* run out.  The in-process handler, whose check and mark are one step and whose
\* marks do not run out, writes the store at most once per id.
C12_RaceWindow ==
    \A e \in EventIds :
        /\ Cardinality({r \in Writers(e) :
                           ~RacedSameId(r) /\ ~h_request[r][1].expired}) <= 1
        /\ deployment = "inprocess" => Cardinality(Writers(e)) <= 1

\* Three concurrent deliveries of one event id have all written the store.
C12_Witness ==
    /\ deployment = "redis"
    /\ \E e \in EventIds :
          /\ Cardinality(Writers(e)) = 3
          /\ \A r \in Writers(e) : ~h_request[r][1].expired

-----------------------------------------------------------------------------
(* Any serviceId a schema-valid event can carry (serviceId: str admits the *)
(* empty string), and more event ids than keys.                            *)

\* The history of the order of writes to WEBHOOK_STORE, read off the response.
HistoryKeys ==
    h_list' =
       IF deployment = "redis" THEN h_list
       ELSE IF IsWebhook(lastOp'.op) /\ Accepted(resp')
       THEN LET k == lastOp'.arg.data.serviceId
                n == h_list.n + 1
            IN  [n |-> n,
                 first |-> [h_list.first EXCEPT ![k] = IF @ = 0 THEN n ELSE @],
                 since |-> [h_list.since EXCEPT ![k] = IF @ = 0 THEN n ELSE @]]
       ELSE IF IsDelete(lastOp'.op) /\ resp'.status_code = 200
       THEN [h_list EXCEPT !.since[lastOp'.arg] = 0]
       ELSE h_list

\* What a step of SpecKeys leaves alone.
KeysFrame ==
    UNCHANGED <<now, h_accepted, h_accepted_at, h_marked, backend_up, h_request, historyVars>>

ObserveKeys(op, arg) ==
    /\ lastOp' = Op(op, arg, None)
    /\ HistoryKeys
    /\ UNCHANGED inflight
    /\ KeysFrame

PostWebhookKeys == \E event \in WideEvents :
    tech4_webhook(event) /\ ObserveKeys("tech4_webhook", event)

DeleteSessionKeys == \E k \in WideServiceIds :
    delete_session(k) /\ ObserveKeys("delete_session", k)

\* A stretch of the Redis ingestion in SpecKeys.
ObserveCallKeys(r, pc, event) ==
    /\ resp' = Reply(r, pc, event)
    /\ lastOp' = Op(IF resp' = NoResponse THEN "redis_call" ELSE "tech4_webhook_redis",
                    event, pc)
    /\ HistoryKeys
    /\ KeysFrame

PostWebhookRedisKeys == \E r \in Requests, event \in WideEvents :
    /\ FreeSlot(r)
    /\ \A q \in Requests : ~Running(q)
    /\ Call(r, "exists", event)
    /\ ObserveCallKeys(r, "exists", event)

SetexEventKeys == \E r \in Requests :
    /\ inflight[r].pc = "setex_event"
    /\ Call(r, "setex_event", inflight[r].event)
    /\ ObserveCallKeys(r, "setex_event", inflight[r].event)

PayloadKeys == \E r \in Requests :
    /\ inflight[r].pc = "payload"
    /\ Call(r, "payload", inflight[r].event)
    /\ ObserveCallKeys(r, "payload", inflight[r].event)

SetexSessionKeys == \E r \in Requests :
    /\ inflight[r].pc = "setex_session"
    /\ Call(r, "setex_session", inflight[r].event)
    /\ ObserveCallKeys(r, "setex_session", inflight[r].event)

DeleteSessionRedisKeys == \E k \in WideServiceIds :
    delete_session_redis(k) /\ ObserveKeys("delete_session_redis", k)

ListSessionsKeys == \E limit \in ListLimits :
    list_sessions(limit) /\ ObserveKeys("list_sessions", limit)

NextKeys ==
    \/ PostWebhookKeys
    \/ DeleteSessionKeys
    \/ ListSessionsKeys
    \/ PostWebhookRedisKeys
    \/ SetexEventKeys
    \/ PayloadKeys
    \/ SetexSessionKeys
    \/ DeleteSessionRedisKeys
    \/ Tick

SpecKeys == Init /\ [][NextKeys]_vars

-----------------------------------------------------------------------------
(* GET /sessions on a store of about LIST_LIMIT_CAP keys.  A behaviour     *)
(* starts in a state the in-process handler is in after one accepted       *)
(* delivery per key, in the order of the keys, at clock 0; from there the  *)
(* keys delivered first are deleted and written again, one more key is     *)
(* written, and the keys are listed.                                       *)

\* The stores hold up to ListEdge keys, or from one key less to ListEdge keys
\* more than the cap of the limit.
ListEdge == 2
ListSizes == (0..ListEdge) \cup {LIST_LIMIT_CAP + d : d \in (-1)..ListEdge}

ListKey(i) == "k" \o ToString(i)
ListKeys == {ListKey(i) : i \in 0..(LIST_LIMIT_CAP + ListEdge)}

\* A text message event without a text.
ListEvent(id, service_id) ==
    [specversion |-> "1.0", id |-> id, type |-> MESSAGE_TYPE, source |-> "tech4",
     subject |-> "conversation", time |-> "t0", datacontenttype |-> "application/json",
     data |-> [id |-> "m1", type |-> "text", createdAt |-> "c1", sentAt |-> "s1",
               by |-> "user", serviceId |-> service_id, text |-> None]]

\* The delivery that wrote the i-th key of the store a behaviour starts in.
LoadedEvent(i) == ListEvent("b" \o ToString(i), ListKey(i))

\* The keys deleted and written in SpecList: one that no store starts with and
\* the one written first; and the events delivered for them.
SmallKeys == {ListKey(0), ListKey(1)}
ListEvents == {ListEvent(id, k) : id \in {"x1", "x2"}, k \in SmallKeys}

InitList ==
    \E n \in ListSizes :
        /\ deployment = "inprocess"
        /\ WEBHOOK_STORE = [i \in 1..n |-> <<ListKey(i), RecordOf(LoadedEvent(i), 0)>>]
        /\ PROCESSED_EVENT_IDS = {LoadedEvent(i).id : i \in 1..n}
        /\ redis = <<>>
        /\ now = 0
        /\ lastOp = Op("none", None, None)
        /\ resp = NoResponse
        /\ h_accepted = [k \in ServiceIds |-> None]
        /\ h_accepted_at = [e \in EventIds |-> -1]
        /\ h_marked = [e \in EventIds |-> -1]
        /\ backend_up = TRUE
        /\ inflight = [r \in Requests |-> Idle]
        /\ h_request = [r \in Requests |-> None]
        /\ h_list = LET written == [k \in ListKeys |->
                                     IF \E i \in 1..n : ListKey(i) = k
                                     THEN CHOOSE i \in 1..n : ListKey(i) = k ELSE 0]
                    IN  [n |-> n, first |-> written, since |-> written]
        /\ history = [k \in ServiceIds |-> <<>>]
        /\ h_puts = [k \in ServiceIds |-> 0]

PostWebhookList == \E event \in ListEvents :
    tech4_webhook(event) /\ ObserveKeys("tech4_webhook", event)

DeleteSessionList == \E k \in SmallKeys :
    delete_session(k) /\ ObserveKeys("delete_session", k)

ListSessionsList == \E limit \in ListLimits :
    list_sessions(limit) /\ ObserveKeys("list_sessions", limit)

NextList ==
    \/ PostWebhookList
    \/ DeleteSessionList
    \/ ListSessionsList

SpecList == InitList /\ [][NextList]_vars

-----------------------------------------------------------------------------
(* C13 *)

\* C13: in every reachable state no record is stored under the empty key, for
\* every schema-valid event, one whose data.serviceId is the empty string included.
C13_KeyNeverEmpty ==
    /\ ~DictHas(WEBHOOK_STORE, "")
    /\ k_session("") \notin DOMAIN redis

-----------------------------------------------------------------------------
(* C14 *)

\* What an accepted ingestion of event, received at received_at, stores under
\* its key, in full.
WholeRecord(event, received_at) ==
    IF deployment = "inprocess" THEN Some(RecordOf(event, received_at))
    ELSE Some([value |-> json_dumps(RecordOf(event, received_at)),
               ttl |-> REDIS_TTL_SECONDS])

\* What key k holds, without its remaining TTL.
Holds(k) ==
    IF deployment = "inprocess" \/ Stored(k) = None THEN Stored(k)
    ELSE Some(Stored(k)[1].value)

\* Key k holds the whole record of an ingestion of event, written at some time.
HoldsRecordOf(k, event) ==
    \E t \in 0..now :
        Holds(k) = Some(IF deployment = "inprocess" THEN RecordOf(event, t)
                        ELSE json_dumps(RecordOf(event, t)))

\* Delivery r is on record as an accepted ingestion.
Stored200(r) ==
    /\ h_request[r] # None
    /\ h_request[r][1].resp.status_code = 200
    /\ Accepted(h_request[r][1].resp)

\* This step completes delivery r as an accepted ingestion.
Stores(r) ==
    /\ h_request'[r] # h_request[r]
    /\ Stored200(r)'

\* C14: however the steps of concurrent ingestions interleave, the write of an
\* accepted ingestion leaves under its key exactly its own record, whatever was
\* there (last write wins), and leaves every other key as it was; so what a key
\* comes to hold is the whole record of one accepted ingestion for that key,
\* never a mixture of two.
C14_LastWriteWins ==
    [][/\ \A r \in Requests :
             Stores(r) =>
                 LET event == h_request'[r][1].event
                 IN  \A k \in ServiceIds :
                         IF k = event.data.serviceId
                         THEN \E t \in 0..now : Stored(k)' = WholeRecord(event, t)
                         ELSE Stored(k)' = Stored(k)
       /\ \A k \in ServiceIds :
             \/ Stored(k)' = None
             \/ Holds(k)' = Holds(k)
             \/ \E r \in Requests, event \in ConcurrentEvents :
                   /\ Stored200(r)'
                   /\ h_request'[r][1].event = event
                   /\ event.data.serviceId = k
                   /\ HoldsRecordOf(k, event)']_vars

\* Two accepted ingestions of different events for one key ran concurrently: the
\* key holds the whole record of the one that arrived first, which wrote last, a
\* tick or more after it had read the clock.
C14_Witness ==
    /\ deployment = "redis"
    /\ \E r1, r2 \in Requests :
          /\ Stored200(r1)
          /\ Stored200(r2)
          /\ r1 < r2
          /\ h_request[r1][1].event.id # h_request[r2][1].event.id
          /\ h_request[r1][1].event.data.serviceId = h_request[r2][1].event.data.serviceId
          /\ \E t \in 0..(now - 1) :
                Stored(h_request[r1][1].event.data.serviceId) =
                    WholeRecord(h_request[r1][1].event, t)

-----------------------------------------------------------------------------
(* C15 *)

\* clamp(limit, 1, 500)
Clamp(limit) == IF limit < 1 THEN 1 ELSE IF limit > 500 THEN 500 ELSE limit

\* This step is list(limit).
Lists(limit) ==
    /\ lastOp'.op = "list_sessions"
    /\ lastOp'.arg = limit
    /\ resp'.status_code = 200

\* The claims of C15 that do not concern the order: min(clamp(limit, 1, 500),
\* number of resident keys) keys are returned, all of them resident, count is
\* their number, and no state changes.
ListsResidentKeys(limit, keys) ==
    /\ Len(keys) = IF Clamp(limit) < Len(WEBHOOK_STORE)
                   THEN Clamp(limit) ELSE Len(WEBHOOK_STORE)
    /\ resp'.body.count = Len(keys)
    /\ LET resident == {WEBHOOK_STORE[i][1] : i \in 1..Len(WEBHOOK_STORE)}
       IN  \A i \in 1..Len(keys) : keys[i] \in resident
    /\ UNCHANGED <<WEBHOOK_STORE, PROCESSED_EVENT_IDS, redis>>

\* The keys are listed in the order of the numbers that written gives them
\* (each key comes before the next one listed).
ListedInOrderOf(keys, written) ==
    \A i \in 1..(Len(keys) - 1) : written[keys[i]] < written[keys[i + 1]]

\* C15 as stated: for every integer limit, list(limit) returns min(clamp(limit,
\* 1, 500), number of resident keys) resident keys, in the order of each key's
\* first write, with count their number, and changes no state.  A key that was
\* deleted and written again is listed after the keys written in between.
C15_ListInOrderOfFirstWrite ==
    [][\A limit \in ListLimits :
          Lists(limit) =>
              LET keys == resp'.body.service_ids
              IN  /\ ListsResidentKeys(limit, keys)
                  /\ ListedInOrderOf(keys, h_list.first)]_vars

\* C15 (amended): for every integer limit, zero and negative included, list(limit)
\* returns min(clamp(limit, 1, 500), number of resident keys) keys, all resident;
\* they are the resident keys written earliest, in the order of each key's first
\* write since it was last deleted (an overwrite does not move a key; a key
\* deleted and written again goes last); count is the number returned, and the
\* list changes no state.
C15_ListInInsertionOrder ==
    [][\A limit \in ListLimits :
          Lists(limit) =>
              LET keys == resp'.body.service_ids
                  listed == {keys[i] : i \in 1..Len(keys)}
                  resident == {WEBHOOK_STORE[i][1] : i \in 1..Len(WEBHOOK_STORE)}
                  since == h_list.since
              IN  /\ ListsResidentKeys(limit, keys)
                  /\ ListedInOrderOf(keys, since)
                  /\ \A k \in resident \ listed : since[keys[Len(keys)]] < since[k]]_vars

\* list with a limit above the cap returned 500 keys of 501: the key left out is
\* the one written first of all, deleted and written again since.
C15_Witness ==
    /\ lastOp.op = "list_sessions"
    /\ lastOp.arg > LIST_LIMIT_CAP
    /\ resp.body.count = LIST_LIMIT_CAP
    /\ Len(WEBHOOK_STORE) = LIST_LIMIT_CAP + 1
    /\ LET k == WEBHOOK_STORE[Len(WEBHOOK_STORE)][1]
       IN  /\ h_list.first[k] = 1
           /\ h_list.since[k] > LIST_LIMIT_CAP
           /\ \A i \in 1..Len(resp.body.service_ids) : resp.body.service_ids[i] # k

-----------------------------------------------------------------------------
(* C16 *)

\* C16: the health result of the Redis handler tells whether the backend is
\* reachable: it reports "up" when the server answers, and not when it does not.
C16_HealthReportsReachability ==
    lastOp.op = "redis_health" => (resp.body.status = "up" <=> backend_up)

-----------------------------------------------------------------------------
(* The bounded-history shape of the event store, from the specification's *)
(* contract: put appends at the tail and truncates to the last            *)
(* HISTORY_MAX entries; getAll returns what is retained, oldest first.    *)

\* The last n entries of s.
LastN(s, n) == IF Len(s) <= n THEN s ELSE SubSeq(s, Len(s) - n + 1, Len(s))

\* Mutant: truncation keeps the first entries and drops the newest.
history_put_keeps_head(h, key, record) ==
    [h EXCEPT ![key] = SubSeq(Append(@, record), 1,
                              IF Len(@) + 1 <= HISTORY_MAX THEN Len(@) + 1 ELSE HISTORY_MAX)]

\* put(key, record) in the bounded-history shape
history_put(h, key, record) ==
    [h EXCEPT ![key] = LastN(Append(@, record), HISTORY_MAX)]

\* getAll(key): the retained entries oldest-to-newest, or not-found
history_get_all(h, key) ==
    IF h[key] = <<>> THEN HTTPException(404, "not-found") ELSE Ok(h[key])

\* What the history actions leave alone.
HistoryFrame ==
    UNCHANGED <<progVars, now, h_accepted, h_accepted_at, h_marked, stepVars, h_request, h_list>>

HistoryPut == \E key \in ServiceIds, body \in Bodies :
    /\ h_puts[key] < MaxPuts
    /\ h_puts' = [h_puts EXCEPT ![key] = @ + 1]
    /\ history' = history_put(history, key, [seq |-> h_puts[key] + 1, body |-> body])
    /\ lastOp' = Op("put", key, None)
    /\ resp' = NoResponse
    /\ HistoryFrame

HistoryGetAll == \E key \in ServiceIds :
    /\ resp' = history_get_all(history, key)
    /\ lastOp' = Op("getAll", key, None)
    /\ UNCHANGED historyVars
    /\ HistoryFrame

NextHistory ==
    \/ HistoryPut
    \/ HistoryGetAll

SpecHistory == Init /\ [][NextHistory]_vars

-----------------------------------------------------------------------------
(* C17 *)

\* C17: with history cap N, the retained sequence of a key never exceeds N
\* entries: after n puts it holds the last min(n, N) of them, oldest first, so
\* N + 5 puts leave exactly N entries with the 5 oldest evicted, and getAll
\* returns exactly the retained sequence.
C17_BoundedHistory ==
    /\ \A key \in ServiceIds :
          LET n == h_puts[key]
              kept == IF n < HISTORY_MAX THEN n ELSE HISTORY_MAX
          IN  /\ Len(history[key]) = kept
              /\ kept <= HISTORY_MAX
              /\ \A i \in 1..kept : history[key][i].seq = n - kept + i
    /\ (lastOp.op = "getAll" /\ h_puts[lastOp.arg] > 0) =>
          (resp.status_code = 200 /\ resp.body = history[lastOp.arg])

\* getAll after N + 5 puts to one key returned N entries, the first of them the
\* sixth put.
C17_Witness ==
    /\ lastOp.op = "getAll"
    /\ h_puts[lastOp.arg] = HISTORY_MAX + 5
    /\ resp.status_code = 200
    /\ Len(resp.body) = HISTORY_MAX
    /\ resp.body[1].seq = 6

-----------------------------------------------------------------------------
(* C18 *)

\* The deliveries that have arrived with event id e.
Arrived(e) == {r \in Requests : h_request[r] # None /\ h_request[r][1].event.id = e}

\* Delivery r failed with a backend error.
Failed(r) == h_request[r][1].resp = InternalServerError

\* C18: a request of the Redis handler that fails with a backend error at one of
\* its Redis calls leaves neither a mark nor a record behind: while every request
\* that arrived with event id e has failed, e has no mark and no key holds a
\* record of e, and a retry of the event on the recovered backend is not answered
\* duplicate.
C18_FailedRequestLeavesNothing ==
    \A e \in EventIds :
        /\ (Arrived(e) # {} /\ \A r \in Arrived(e) : Failed(r)) =>
              /\ ~Seen(e)
              /\ \A k \in ServiceIds : Found(k) => getLatest(k).body.event_id # e
        /\ \A r \in Arrived(e) :
              (\A q \in Arrived(e) \ {r} : Failed(q)) =>
                  h_request[r][1].resp # Duplicate

-----------------------------------------------------------------------------
(* C19 *)

\* Every entry of WEBHOOK_STORE carries its own key as service_id and the id of
\* a processed event as event_id.
EntriesMatchKeysAndMarks ==
    \A i \in 1..Len(WEBHOOK_STORE) :
        /\ WEBHOOK_STORE[i][2].service_id = WEBHOOK_STORE[i][1]
        /\ WEBHOOK_STORE[i][2].event_id \in PROCESSED_EVENT_IDS

\* C19: in the in-process handler, after every step each entry stored under k has
\* service_id = k and an event_id that is in PROCESSED_EVENT_IDS, and no step
\* removes an id from PROCESSED_EVENT_IDS.
C19_StoreMatchesMarks ==
    [][deployment = "inprocess" =>
          /\ EntriesMatchKeysAndMarks'
          /\ PROCESSED_EVENT_IDS \subseteq PROCESSED_EVENT_IDS']_vars

\* After a delete, one key still holds its record and the set keeps the ids of
\* both the deleted and the remaining record.
C19_Witness ==
    /\ lastOp.op = "delete_session"
    /\ resp.status_code = 200
    /\ Len(WEBHOOK_STORE) = 1
    /\ PROCESSED_EVENT_IDS = EventIds
    /\ EntriesMatchKeysAndMarks

-----------------------------------------------------------------------------
(* C20 *)

\* C20: a read in either handler leaves every record, every mark and every TTL as
\* it was, whether it finds a record (the lifetime is not extended) or not (no
\* entry is created).
C20_ReadsChangeNothing ==
    [][IsGet(lastOp'.op) =>
          /\ WEBHOOK_STORE' = WEBHOOK_STORE
          /\ PROCESSED_EVENT_IDS' = PROCESSED_EVENT_IDS
          /\ redis' = redis]_vars

\* A record with one tick left was read and still has one tick left, and a key
\* without a record has none.
C20_Witness ==
    /\ lastOp.op = "get_latest_session_redis"
    /\ resp.status_code = 200
    /\ redis[k_session(lastOp.arg)].ttl = 1
    /\ \E k \in ServiceIds : k_session(k) \notin DOMAIN redis

====
